---- MODULE Spec2Model ----
(***************************************************************************)
(* Model of the Story Sprout repository: the ConnectOpenAI wrapper         *)
(* (src/ConnectOpenAI.py) and the page flow of the Streamlit application   *)
(* (src/main.py).                                                          *)
(*                                                                         *)
(* Three specifications share the module:                                  *)
(*   SpecEst  num_tokens_from_messages as a pure function of its inputs    *)
(*   Spec     one ConnectOpenAI client and its two collaborators           *)
(*   SpecApp  the script runs of main.py over one browser session          *)
(*                                                                         *)
(* Representation of Python strings.  A text handed to the tokenizer       *)
(* (role, content, name) is a sequence of pieces, each piece being a       *)
(* stretch of characters that the cl100k_base encoder turns into one       *)
(* token; the empty text is <<>>.  A finish reason is a sequence of        *)
(* one-character strings, so that Python's substring test can be computed. *)
(* Model identifiers are plain strings: the code only compares them.       *)
(***************************************************************************)
EXTENDS Integers, Sequences, FiniteSets, TLC

VARIABLES
    \* ---- SpecEst: inputs and result of num_tokens_from_messages
    eModel,      \* the model argument
    eRegistry,   \* the model names tiktoken.encoding_for_model knows
    eMessages,   \* the messages argument
    eOut,        \* outcome of the last call on (eMessages, eModel), or NoCall
    ePrev,       \* outcome on the list as it was before a name was added
    eNamed,      \* the name text last added to a message, or NoName
    \* ---- Spec: a ConnectOpenAI instance and what surrounds it
    self,        \* the instance: model, estimated_tokens, total_tokens
    modCalls,    \* number of openai.Moderation.create calls made
    genCalls,    \* number of openai.ChatCompletion.create calls made
    sent,        \* messages of the latest ChatCompletion.create call
    lastUsage,   \* usage reported by the latest successful ChatCompletion call
    sumUsage,    \* sum of the usages reported by all successful calls
    call,        \* the latest method call: arguments, outcome, counters before
    nOps,        \* number of method calls made so far
    \* ---- SpecApp: st.session_state and the latest script run
    ss,          \* st.session_state
    secrets,     \* st.secrets.stories test switches
    run,         \* what the latest script run did
    createCalls  \* number of create_story invocations in the session

estVars == <<eModel, eRegistry, eMessages, eOut, ePrev, eNamed>>
cliVars == <<self, modCalls, genCalls, sent, lastUsage, sumUsage, call, nOps>>
appVars == <<ss, secrets, run, createCalls>>
vars == <<estVars, cliVars, appVars>>

(***************************************************************************)
(* Bounds                                                                  *)
(***************************************************************************)
MaxMsgs == 2       \* longest message list given to the estimator
MaxOps == 2        \* method calls on one client
MaxUsage == 2      \* largest usage the generation collaborator reports
MaxCreates == 2    \* create_story invocations in one session

(***************************************************************************)
(* Texts                                                                   *)
(***************************************************************************)
Texts == {<<>>, <<"hi">>, <<"hi", "there">>}
Roles == {<<"system">>, <<"user">>}

\* encoding.encode(value): one token per piece
Encode(value) == [i \in DOMAIN value |-> <<"token", value[i]>>]

Models == {"gpt-3.5-turbo", "gpt-4", "gpt-3.5-turbo-0301", "gpt-4-0314",
           "text-davinci-003", "made-up-model-9000"}
SupportedModels == {"gpt-3.5-turbo", "gpt-4", "gpt-3.5-turbo-0301", "gpt-4-0314"}

\* What tiktoken.encoding_for_model can resolve: a current release, and a
\* release that predates the gpt-4 family.
RegistryCurrent == {"gpt-3.5-turbo", "gpt-4", "gpt-3.5-turbo-0301", "gpt-4-0314",
                    "text-davinci-003"}
RegistryOld == {"gpt-3.5-turbo", "text-davinci-003"}
Registries == {RegistryCurrent, RegistryOld}

\* A message is a Python dict: a function from its keys to texts.
PlainMessages == {[role |-> r, content |-> c] : r \in Roles, c \in Texts}
NamedMessages == {[role |-> r, content |-> c, name |-> n] : r \in Roles, c \in Texts, n \in Texts}
Messages == PlainMessages \cup NamedMessages

RECURSIVE SeqsUpTo(_, _)
SeqsUpTo(S, n) ==
    IF n = 0 THEN {<<>>}
    ELSE LET shorter == SeqsUpTo(S, n - 1)
         IN  shorter \cup {Append(s, x) : s \in {t \in shorter : Len(t) = n - 1}, x \in S}

(***************************************************************************)
(* ConnectOpenAI.num_tokens_from_messages                                  *)
(***************************************************************************)
Return(v, warned) == [kind |-> "return", value |-> v, warned |-> warned]
Raise(e, warned) == [kind |-> "raise", error |-> e, warned |-> warned]

\* the except KeyError branch: the warning is printed, cl100k_base is used
EncoderWarning(model, registry) == model \notin registry

\* variant: the overheads of the two snapshots exchanged
tokens_per_message_exchanged(model) == IF model = "gpt-3.5-turbo-0301" THEN 3 ELSE 4

\* variant: a name costs one more token under every rule
tokens_per_name_uniform(model) == 1

tokens_per_message(model) == IF model = "gpt-3.5-turbo-0301" THEN 4 ELSE 3
tokens_per_name(model) == IF model = "gpt-3.5-turbo-0301" THEN -1 ELSE 1

\* the inner loop over message.items()
RECURSIVE ItemTokens(_, _, _)
ItemTokens(message, keys, model) ==
    IF keys = {} THEN 0
    ELSE LET key == CHOOSE k \in keys : TRUE
         IN  Len(Encode(message[key]))
             + (IF key = "name" THEN tokens_per_name(model) ELSE 0)
             + ItemTokens(message, keys \ {key}, model)

\* the outer loop over messages
RECURSIVE LoopTokens(_, _)
LoopTokens(messages, model) ==
    IF messages = <<>> THEN 0
    ELSE tokens_per_message(model)
         + ItemTokens(Head(messages), DOMAIN Head(messages), model)
         + LoopTokens(Tail(messages), model)

\* variant: an unrecognised model is counted with the gpt-4-0314 rule
num_tokens_guessing(messages, model, registry) ==
    LET rule == IF model \in {"gpt-3.5-turbo", "gpt-3.5-turbo-0301"}
                THEN "gpt-3.5-turbo-0301" ELSE "gpt-4-0314"
    IN  Return(LoopTokens(messages, rule) + 3, EncoderWarning(model, registry))

\* variant: the reply priming is left out
num_tokens_without_priming(messages, model, registry) ==
    LET rule == IF model \in {"gpt-3.5-turbo", "gpt-3.5-turbo-0301"}
                THEN "gpt-3.5-turbo-0301" ELSE "gpt-4-0314"
    IN  IF model \in {"gpt-3.5-turbo", "gpt-4", "gpt-3.5-turbo-0301", "gpt-4-0314"}
        THEN Return(LoopTokens(messages, rule), EncoderWarning(model, registry))
        ELSE Raise("NotImplementedError", EncoderWarning(model, registry))

RECURSIVE num_tokens_from_messages(_, _, _)
num_tokens_from_messages(messages, model, registry) ==
    LET warned == EncoderWarning(model, registry)
        Redirect(snapshot) ==
            LET r == num_tokens_from_messages(messages, snapshot, registry)
            IN  [r EXCEPT !.warned = @ \/ warned]
    IN  IF model = "gpt-3.5-turbo" THEN Redirect("gpt-3.5-turbo-0301")
        ELSE IF model = "gpt-4" THEN Redirect("gpt-4-0314")
        ELSE IF model \in {"gpt-3.5-turbo-0301", "gpt-4-0314"}
             THEN Return(LoopTokens(messages, model) + 3, warned)
        ELSE Raise("NotImplementedError", warned)

(***************************************************************************)
(* SpecEst: the estimator applied to bounded inputs                        *)
(***************************************************************************)
NoCall == [kind |-> "none"]
NoName == [added |-> FALSE]

EstIdle ==
    /\ eModel = "gpt-4"
    /\ eRegistry = RegistryCurrent
    /\ eMessages = <<>>
    /\ eOut = NoCall
    /\ ePrev = NoCall
    /\ eNamed = NoName

EstInit ==
    /\ eModel \in Models
    /\ eRegistry \in Registries
    /\ eMessages \in SeqsUpTo(Messages, MaxMsgs)
    /\ eOut = NoCall
    /\ ePrev = NoCall
    /\ eNamed = NoName

\* a call of num_tokens_from_messages(eMessages, eModel)
Estimate ==
    /\ eOut = NoCall
    /\ eOut' = num_tokens_from_messages(eMessages, eModel, eRegistry)
    /\ UNCHANGED <<eModel, eRegistry, eMessages, ePrev, eNamed, cliVars, appVars>>

\* the caller adds a name field to one message that has none, all else equal
AddName ==
    /\ eOut # NoCall
    /\ eNamed = NoName
    /\ \E i \in DOMAIN eMessages, n \in Texts :
        /\ "name" \notin DOMAIN eMessages[i]
        /\ eMessages' = [eMessages EXCEPT ![i] =
               [k \in {"role", "content", "name"} |-> IF k = "name" THEN n ELSE @[k]]]
        /\ eNamed' = [added |-> TRUE, name |-> n]
    /\ ePrev' = eOut
    /\ eOut' = NoCall
    /\ UNCHANGED <<eModel, eRegistry, cliVars, appVars>>

(***************************************************************************)
(* ConnectOpenAI: construction, moderate_message, create_story             *)
(***************************************************************************)
Chars_stop == <<"s", "t", "o", "p">>
Chars_length == <<"l", "e", "n", "g", "t", "h">>
Chars_content_filter ==
    <<"c", "o", "n", "t", "e", "n", "t", "_", "f", "i", "l", "t", "e", "r">>
Chars_bogus == <<"b", "o", "g", "u", "s">>

\* the tuple ('stop', 'length', 'content_filter') of create_story
KnownReasons == {Chars_stop, Chars_length, Chars_content_filter}

\* values a caller may pass as test_reason
TestReasons == KnownReasons \cup
    {Chars_bogus, <<>>, <<"s">>, <<"l", "e", "n">>, <<"c", "o", "n", "t", "e", "n", "t">>}

\* Python's `a in b` on two strings
IsSubstring(a, b) ==
    \E i \in 1..(Len(b) - Len(a) + 1) : SubSeq(b, i, i + Len(a) - 1) = a

\* variables.example_story
example_story == <<"example_story">>

\* __init__(api_key, model=...)
Construct(model) == [model |-> model, estimated_tokens |-> 0, total_tokens |-> 0]

\* Outcomes of the two collaborators.
ModerationResponses ==
    {[ok |-> TRUE, flagged |-> f] : f \in BOOLEAN} \cup {[ok |-> FALSE, error |-> "APIError"]}
ChatResponses ==
    {[ok |-> TRUE, content |-> <<"story">>, finish_reason |-> r, usage |-> u] :
        r \in KnownReasons, u \in 1..MaxUsage}
    \cup {[ok |-> FALSE, error |-> "APIError"]}

\* stands for the answer of a collaborator in a call that never reaches it
Unreached == [ok |-> FALSE, error |-> "unreached"]

\* the instruction texts a caller passes (st.secrets.stories in main.py)
Instructions == {<<"hi">>, <<"hi", "there">>}

\* variant: the test switch is ignored and the collaborator is always asked
moderate_message_always_asking(user_message, test, test_flagged, response) ==
    IF response.ok
    THEN [kind |-> "return", flagged |-> response.flagged, requests |-> 1]
    ELSE [kind |-> "raise", error |-> response.error, requests |-> 1]

\* moderate_message(user_message, test, test_flagged); response is what
\* openai.Moderation.create answers if it is called.  requests counts the
\* calls made to it.
moderate_message(user_message, test, test_flagged, response) ==
    IF test
    THEN [kind |-> "return", flagged |-> test_flagged, requests |-> 0]
    ELSE IF response.ok
         THEN [kind |-> "return", flagged |-> response.flagged, requests |-> 1]
         ELSE [kind |-> "raise", error |-> response.error, requests |-> 1]

\* lines 101-102 and 105: the finish reason returned in test mode
TestFinishReason(test_reason) ==
    IF ~ \E reason \in KnownReasons : IsSubstring(test_reason, reason)
    THEN Chars_stop
    ELSE test_reason

\* variant: the system instruction is left out
StoryMessagesUserOnly(instruction, user_message) ==
    << [role |-> <<"user">>, content |-> user_message] >>

\* lines 109-112: the messages of one call
StoryMessages(instruction, user_message) ==
    << [role |-> <<"system">>, content |-> instruction],
       [role |-> <<"user">>, content |-> user_message] >>

\* variant: the reported usage is added to the counter
RecordUsageAdding(me, usage) == [me EXCEPT !.total_tokens = @ + usage]

\* line 126
RecordUsage(me, usage) == [me EXCEPT !.total_tokens = usage]

\* variant: a failed request is repeated once before the failure is raised
create_story_retrying(me, user_message, instruction, test, test_reason, response) ==
    IF test
    THEN [self |-> me, kind |-> "return", story |-> example_story,
          finish_reason |-> TestFinishReason(test_reason),
          requests |-> 0, messages |-> <<>>]
    ELSE LET messages == StoryMessages(instruction, user_message)
             est == num_tokens_from_messages(messages, me.model, RegistryCurrent)
         IN  IF est.kind = "raise"
             THEN [self |-> me, kind |-> "raise", error |-> est.error,
                   requests |-> 0, messages |-> <<>>]
             ELSE LET estimated == [me EXCEPT !.estimated_tokens = est.value]
                  IN  IF ~response.ok
                      THEN [self |-> estimated, kind |-> "raise", error |-> response.error,
                            requests |-> 2, messages |-> messages]
                      ELSE [self |-> RecordUsage(estimated, response.usage),
                            kind |-> "return", story |-> response.content,
                            finish_reason |-> response.finish_reason,
                            requests |-> 1, messages |-> messages]

\* create_story(user_message, instruction, test, test_reason); response is
\* what openai.ChatCompletion.create answers if it is called.  The result
\* holds the instance after the call, the outcome, the number of requests
\* made to the collaborator and the messages given to it.
create_story(me, user_message, instruction, test, test_reason, response) ==
    IF test
    THEN [self |-> me, kind |-> "return", story |-> example_story,
          finish_reason |-> TestFinishReason(test_reason),
          requests |-> 0, messages |-> <<>>]
    ELSE LET messages == StoryMessages(instruction, user_message)
             est == num_tokens_from_messages(messages, me.model, RegistryCurrent)
         IN  IF est.kind = "raise"
             THEN [self |-> me, kind |-> "raise", error |-> est.error,
                   requests |-> 0, messages |-> <<>>]
             ELSE LET estimated == [me EXCEPT !.estimated_tokens = est.value]
                  IN  IF ~response.ok
                      THEN [self |-> estimated, kind |-> "raise", error |-> response.error,
                            requests |-> 1, messages |-> messages]
                      ELSE [self |-> RecordUsage(estimated, response.usage),
                            kind |-> "return", story |-> response.content,
                            finish_reason |-> response.finish_reason,
                            requests |-> 1, messages |-> messages]

(***************************************************************************)
(* Spec: method calls on one client                                        *)
(***************************************************************************)
ClientModels == {"gpt-4", "gpt-3.5-turbo", "made-up-model-9000"}

CliIdle ==
    /\ self = Construct("gpt-4")
    /\ modCalls = 0
    /\ genCalls = 0
    /\ sent = <<>>
    /\ lastUsage = 0
    /\ sumUsage = 0
    /\ call = [op |-> "none"]
    /\ nOps = 0

CliInit ==
    /\ self \in {Construct(m) : m \in ClientModels}
    /\ modCalls = 0
    /\ genCalls = 0
    /\ sent = <<>>
    /\ lastUsage = 0
    /\ sumUsage = 0
    /\ call = [op |-> "none"]
    /\ nOps = 0

Moderate ==
    /\ nOps < MaxOps
    /\ \E user_message \in Texts, test \in BOOLEAN, test_flagged \in BOOLEAN,
          response \in ModerationResponses :
        LET out == moderate_message(user_message, test, test_flagged, response)
        IN  /\ modCalls' = modCalls + out.requests
            /\ call' = [op |-> "moderate_message", user_message |-> user_message,
                        test |-> test, test_flagged |-> test_flagged, out |-> out,
                        modBefore |-> modCalls]
    /\ nOps' = nOps + 1
    /\ UNCHANGED <<self, genCalls, sent, lastUsage, sumUsage, estVars, appVars>>

CreateStory ==
    /\ nOps < MaxOps
    /\ \E user_message \in Texts, instruction \in Instructions, test \in BOOLEAN :
       \E test_reason \in (IF test THEN TestReasons ELSE {Chars_stop}),
          response \in (IF test THEN {Unreached} ELSE ChatResponses) :
        LET out == create_story(self, user_message, instruction, test, test_reason, response)
            answered == out.requests > 0 /\ response.ok
        IN  /\ self' = out.self
            /\ genCalls' = genCalls + out.requests
            /\ sent' = IF out.requests > 0 THEN out.messages ELSE sent
            /\ lastUsage' = IF answered THEN response.usage ELSE lastUsage
            /\ sumUsage' = IF answered THEN sumUsage + response.usage ELSE sumUsage
            /\ call' = [op |-> "create_story", user_message |-> user_message,
                        instruction |-> instruction, test |-> test,
                        test_reason |-> test_reason, response |-> response, out |-> out,
                        before |-> self, genBefore |-> genCalls]
    /\ nOps' = nOps + 1
    /\ UNCHANGED <<modCalls, estVars, appVars>>

(***************************************************************************)
(* main.py: one script run per page load, form submission or button click  *)
(***************************************************************************)
Ages == {4}
Ratings == {5}
AppInstructions == {<<"hi">>}
SecretsChoices ==
    [test_moderation : BOOLEAN, test_moderation_flagged : BOOLEAN,
     test_story : BOOLEAN, test_reason : {Chars_stop}]

\* The answers the collaborators can give in a run under the configured
\* switches: a collaborator that a test switch bypasses answers nothing.
AppModerationResponses ==
    IF secrets.test_moderation THEN {Unreached} ELSE ModerationResponses
AppChatResponses ==
    IF secrets.test_story THEN {Unreached}
    ELSE {r \in ChatResponses :
            r.ok => r.usage = 1 /\ r.finish_reason \in {Chars_stop, Chars_length}}

\* lines 271-276 on an empty st.session_state, widgets at their defaults
FreshSession ==
    [user_message |-> <<>>, age |-> 4, prompt_error |-> "None",
     story_warning |-> "None", stories_data |-> <<>>]

NotCalled == [kind |-> "skipped", requests |-> 0]

\* line 193: the f-string around the prompt and the age
CompleteMessage(user_message, age) ==
    user_message \o <<".\n\nMake the story for a ", age, " year old.">>

\* lines 201-205
StoryWarning(finish_reason) ==
    IF finish_reason = Chars_length THEN "cut_off"
    ELSE IF finish_reason = Chars_content_filter THEN "usage_policies"
    ELSE "None"

\* prompt_section, lines 165-178: the moderation call it makes, if any
PromptModeration(s, submitted, response) ==
    IF submitted /\ s.user_message # <<>>
    THEN moderate_message(s.user_message, secrets.test_moderation,
                          secrets.test_moderation_flagged, response)
    ELSE NotCalled

\* prompt_section, lines 165-178: st.session_state.prompt_error afterwards
PromptError(s, submitted, moderation) ==
    IF ~submitted THEN s.prompt_error
    ELSE IF s.user_message = <<>> THEN "no_text"
    ELSE IF moderation.flagged THEN "flagged"
    ELSE "False"

\* variant: the submit state of the prompt form is not consulted
ShouldGenerateUnsubmitted(prompt_error, form_submitted) ==
    /\ prompt_error # "None"
    /\ prompt_error = "False"

\* lines 279-285: the conditions around the generate_story call
ShouldGenerate(prompt_error, form_submitted) ==
    /\ prompt_error # "None"
    /\ prompt_error = "False"
    /\ form_submitted

\* generate_story, lines 193-221, once create_story has returned `out`
GenerateStory(s, instruction, out) ==
    [s EXCEPT
        !.story_warning = StoryWarning(out.finish_reason),
        !.stories_data = Append(@,
            [user_message |-> s.user_message, age |-> s.age,
             instruction |-> instruction, story |-> out.story,
             finish_reason |-> out.finish_reason,
             estimated_tokens |-> out.self.estimated_tokens,
             total_tokens |-> out.self.total_tokens,
             count |-> Len(s.stories_data), feedback |-> "None"])]

\* One run of the script on session state s.  The client is constructed anew
\* by every run (line 85).  An exception raised by a collaborator ends the
\* run where it happens: completed tells whether the run reached line 297,
\* and so whether the feedback forms and the restart button are on the page.
ScriptRun(s, submitted, modResponse, instruction, chatResponse) ==
    LET moderation == PromptModeration(s, submitted, modResponse)
    IN  IF moderation.kind = "raise"
        THEN [ss |-> s, submitted |-> submitted, prompt |-> s.user_message,
              moderation |-> moderation, created |-> 0, completed |-> FALSE]
        ELSE LET s1 == [s EXCEPT !.prompt_error = PromptError(s, submitted, moderation)]
             IN  IF ~ShouldGenerate(s1.prompt_error, submitted)
                 THEN [ss |-> s1, submitted |-> submitted, prompt |-> s.user_message,
                       moderation |-> moderation, created |-> 0, completed |-> TRUE]
                 ELSE LET out == create_story(Construct("gpt-4"),
                                     CompleteMessage(s1.user_message, s1.age), instruction,
                                     secrets.test_story, secrets.test_reason, chatResponse)
                      IN  [ss |-> IF out.kind = "raise" THEN s1
                                  ELSE GenerateStory(s1, instruction, out),
                           submitted |-> submitted, prompt |-> s.user_message,
                           moderation |-> moderation, created |-> 1,
                           completed |-> out.kind = "return"]

AppIdle ==
    /\ ss = FreshSession
    /\ secrets = [test_moderation |-> TRUE, test_moderation_flagged |-> FALSE,
                  test_story |-> TRUE, test_reason |-> Chars_stop]
    /\ run = [submitted |-> FALSE, prompt |-> <<>>,
              moderation |-> NotCalled, created |-> 0, completed |-> TRUE]
    /\ createCalls = 0

\* the session after the first page load
AppInit ==
    /\ ss = FreshSession
    /\ secrets \in SecretsChoices
    /\ run = [submitted |-> FALSE, prompt |-> <<>>,
              moderation |-> NotCalled, created |-> 0, completed |-> TRUE]
    /\ createCalls = 0

Finish(r) ==
    /\ createCalls + r.created <= MaxCreates
    /\ ss' = r.ss
    /\ run' = [submitted |-> r.submitted, prompt |-> r.prompt,
               moderation |-> r.moderation, created |-> r.created,
               completed |-> r.completed]
    /\ createCalls' = createCalls + r.created
    /\ UNCHANGED <<secrets, estVars, cliVars>>

\* the user fills the prompt form and presses "Generate story"
PromptSubmit ==
    /\ \E text \in Texts, age \in Ages, modResponse \in AppModerationResponses,
          instruction \in AppInstructions, chatResponse \in AppChatResponses :
        Finish(ScriptRun([ss EXCEPT !.user_message = text, !.age = age],
                                   TRUE, modResponse, instruction, chatResponse))

\* the user presses "Submit Feedback" in the form of story k (lines 248-253)
FeedbackSubmit ==
    /\ run.completed
    /\ ss.prompt_error = "False"
    /\ \E k \in DOMAIN ss.stories_data, rating \in Ratings,
          modResponse \in AppModerationResponses,
          instruction \in AppInstructions, chatResponse \in AppChatResponses :
        LET r == ScriptRun(ss, FALSE, modResponse, instruction, chatResponse)
            n == r.ss.stories_data[k].count + 1
        IN  Finish([r EXCEPT !.ss.stories_data[n].feedback = rating])

\* the user presses "Clean stories and start again?": restart_app empties
\* st.session_state, then the script runs
Restart ==
    /\ run.completed
    /\ ss.prompt_error = "False"
    /\ \E modResponse \in AppModerationResponses,
          instruction \in AppInstructions, chatResponse \in AppChatResponses :
        Finish(ScriptRun(FreshSession, FALSE, modResponse, instruction, chatResponse))

(***************************************************************************)
(* Specifications                                                          *)
(***************************************************************************)
InitEst == EstInit /\ CliIdle /\ AppIdle
NextEst == Estimate \/ AddName
SpecEst == InitEst /\ [][NextEst]_vars

Init == EstIdle /\ CliInit /\ AppIdle
Next == Moderate \/ CreateStory
Spec == Init /\ [][Next]_vars

InitApp == EstIdle /\ CliIdle /\ AppInit
NextApp == PromptSubmit \/ FeedbackSubmit \/ Restart
SpecApp == InitApp /\ [][NextApp]_vars

(***************************************************************************)
(* Properties of num_tokens_from_messages (SpecEst)                        *)
(***************************************************************************)
Estimated == eOut # NoCall
Returned == eOut # NoCall /\ eOut.kind = "return"
Unnamed == \A i \in DOMAIN eMessages : "name" \notin DOMAIN eMessages[i]

RECURSIVE ContentOnlySum(_)
ContentOnlySum(messages) ==
    IF messages = <<>> THEN 0
    ELSE 3 + Len(Head(messages)["content"]) + ContentOnlySum(Tail(messages))

RECURSIVE RoleAndContentSum(_)
RoleAndContentSum(messages) ==
    IF messages = <<>> THEN 0
    ELSE 3 + Len(Head(messages)["role"]) + Len(Head(messages)["content"])
         + RoleAndContentSum(Tail(messages))

\* C5 as stated: under model 'gpt-4-0314' the estimate of a list of messages
\* without a name field is the sum over the messages of (3 + tokens of the
\* content) plus 3, so that one user message with a 2-token content gives 8.
C5_ContentOnlyEstimate ==
    (eModel = "gpt-4-0314" /\ Returned /\ Unnamed)
        => /\ eOut.value = ContentOnlySum(eMessages) + 3
           /\ (eMessages = <<[role |-> <<"user">>, content |-> <<"hi", "there">>]>>
                  => eOut.value = 8)

\* C5 as amended: under model 'gpt-4-0314' the estimate of a list of messages
\* without a name field is the sum over the messages of (3 + tokens of the
\* role value + tokens of the content) plus 3; one user message with a
\* 2-token content gives 9, the role 'user' being one token.
C5_RoleAndContentEstimate ==
    (eModel = "gpt-4-0314" /\ Returned /\ Unnamed)
        => /\ eOut.value = RoleAndContentSum(eMessages) + 3
           /\ (eMessages = <<[role |-> <<"user">>, content |-> <<"hi", "there">>]>>
                  => eOut.value = 9)

C5_Witness ==
    /\ eModel = "gpt-4-0314"
    /\ eMessages = <<[role |-> <<"user">>, content |-> <<"hi", "there">>]>>
    /\ Returned
    /\ eOut.value = 9

NameAdded == eNamed.added /\ Returned /\ ePrev.kind = "return"

\* C6 as stated: under model 'gpt-3.5-turbo-0301', adding a name field to one
\* message makes the estimate exactly one token less, whatever the name.
C6_NameCostsOneLess ==
    (eModel = "gpt-3.5-turbo-0301" /\ NameAdded) => eOut.value = ePrev.value - 1

\* C6 as amended: under model 'gpt-3.5-turbo-0301', adding a name field to
\* one message changes the estimate by the token count of the name value
\* minus one.
C6_NameCostsItsTokensLessOne ==
    (eModel = "gpt-3.5-turbo-0301" /\ NameAdded)
        => eOut.value = ePrev.value + Len(eNamed.name) - 1

C6_Witness ==
    /\ eModel = "gpt-3.5-turbo-0301"
    /\ NameAdded
    /\ eNamed.name = <<"hi", "there">>
    /\ eOut.value = ePrev.value + 1

\* C7: a model identifier outside the four supported ones makes the call fail
\* with NotImplementedError for every message list, the empty one included,
\* and no estimate is returned; a model whose encoder is unknown gets the
\* warning, and the call fails only if the model is unsupported.
C7_UnsupportedModelRaises ==
    Estimated =>
        /\ eModel \notin SupportedModels
              => eOut.kind = "raise" /\ eOut.error = "NotImplementedError"
                 /\ "value" \notin DOMAIN eOut
        /\ eModel \in SupportedModels => eOut.kind = "return"
        /\ eModel \notin eRegistry => eOut.warned

C7_Witness ==
    /\ eModel = "made-up-model-9000"
    /\ eMessages = <<>>
    /\ Estimated
    /\ eOut.kind = "raise"
    /\ eOut.warned

\* C8 as stated: for every model identifier the estimate of the empty
\* message sequence is exactly 3.
C8_EmptyIsThreeForAnyModel ==
    (eMessages = <<>> /\ Estimated) => eOut.kind = "return" /\ eOut.value = 3

\* C8 as amended: for each of the four supported model identifiers the
\* estimate of the empty message sequence is exactly 3.
C8_EmptyIsThreeForSupportedModel ==
    (eMessages = <<>> /\ Estimated /\ eModel \in SupportedModels)
        => eOut.kind = "return" /\ eOut.value = 3

C8_Witness ==
    /\ eMessages = <<>>
    /\ eModel = "gpt-3.5-turbo"
    /\ Returned
    /\ eOut.value = 3

(***************************************************************************)
(* Properties of one client (Spec)                                         *)
(***************************************************************************)
TestStory == call.op = "create_story" /\ call.test
LiveStory == call.op = "create_story" /\ ~call.test

\* C1: in test mode create_story returns the caller's test_reason unchanged
\* when it is 'stop', 'length' or 'content_filter', and 'stop' for every
\* other test_reason.
C1_TestReasonNormalized ==
    TestStory =>
        /\ call.out.kind = "return"
        /\ call.out.finish_reason =
              IF call.test_reason \in KnownReasons THEN call.test_reason ELSE Chars_stop

\* C2: moderate_message with test=True returns the caller's test_flagged for
\* every user_message and leaves the call count of the moderation
\* collaborator unchanged.
C2_TestModerationIsLocal ==
    (call.op = "moderate_message" /\ call.test)
        => /\ call.out.kind = "return"
           /\ call.out.flagged = call.test_flagged
           /\ modCalls = call.modBefore

C2_Witness ==
    /\ call.op = "moderate_message"
    /\ call.test
    /\ call.test_flagged
    /\ call.user_message = <<"hi", "there">>
    /\ call.out.flagged
    /\ modCalls = call.modBefore
    /\ modCalls > 0

C4_TotalIsLatestUsage ==
    /\ self.total_tokens = lastUsage
    /\ sumUsage > lastUsage => self.total_tokens # sumUsage

C4_Witness ==
    /\ sumUsage > lastUsage
    /\ lastUsage > 0
    /\ self.total_tokens = lastUsage
    /\ LiveStory
    /\ call.out.kind = "return"
    /\ call.before.total_tokens > self.total_tokens

\* C9 as stated: a non-test generate call makes exactly one request to the
\* generation collaborator; if the request fails the failure reaches the
\* caller, no pair is returned and total_tokens is as before the call.
C9_OneRequestPerCall ==
    LiveStory =>
        /\ genCalls = call.genBefore + 1
        /\ ~call.response.ok
              => /\ call.out.kind = "raise"
                 /\ call.out.error = call.response.error
                 /\ "story" \notin DOMAIN call.out
                 /\ self.total_tokens = call.before.total_tokens

\* C9 as amended: a non-test generate call whose token estimate succeeds
\* makes exactly one request to the generation collaborator, and if the
\* request fails the failure reaches the caller, no pair is returned and
\* total_tokens is as before the call; when the estimate fails (unsupported
\* model) no request is made at all and NotImplementedError reaches the
\* caller.
C9_OneRequestAfterEstimate ==
    LiveStory =>
        IF self.model \in SupportedModels
        THEN /\ genCalls = call.genBefore + 1
             /\ ~call.response.ok
                   => /\ call.out.kind = "raise"
                      /\ call.out.error = call.response.error
                      /\ "story" \notin DOMAIN call.out
                      /\ self.total_tokens = call.before.total_tokens
        ELSE /\ genCalls = call.genBefore
             /\ call.out.kind = "raise"
             /\ call.out.error = "NotImplementedError"
             /\ self = call.before

C9_Witness ==
    /\ LiveStory
    /\ self.model = "gpt-4"
    /\ ~call.response.ok
    /\ call.out.kind = "raise"
    /\ genCalls = call.genBefore + 1
    /\ self.total_tokens = call.before.total_tokens
    /\ self.total_tokens > 0

(***************************************************************************)
(* Properties of the page flow (SpecApp)                                   *)
(***************************************************************************)
\* C10: create_story is invoked only in a run in which the prompt form was
\* submitted with a non-empty prompt that moderate_message, in that run, did
\* not flag; an empty or flagged submission never invokes it, whatever was
\* accepted before.
C10_CreateOnlyAfterCleanSubmit ==
    run.created > 0 =>
        /\ run.submitted
        /\ run.prompt # <<>>
        /\ run.moderation.kind = "return"
        /\ ~run.moderation.flagged

C10_Witness ==
    /\ createCalls > 0
    /\ Len(ss.stories_data) > 0
    /\ run.submitted
    /\ ss.prompt_error = "flagged"
    /\ run.created = 0

====
